---- MODULE Spec2Model ----
(***************************************************************************)
(* Lab-access compliance: the compliance evaluators of                     *)
(* compliance/routes/manager.py (_add_months, _is_training_current,        *)
(* _has_required_acks, is_compliant_for_lab), and the LabAccess state      *)
(* machine driven by request_access / cancel_request (routes/engineer.py)  *)
(* and approve / revoke / autocheck (routes/manager.py); the document      *)
(* acknowledgments (acknowledge_document, routes/admin.py ack_document)    *)
(* and the daily lab metrics (metrics_save).                               *)
(***************************************************************************)
EXTENDS Integers, Sequences, FiniteSets, TLC

(***************************************************************************)
(* Bounds of the model.                                                    *)
(***************************************************************************)
\* number of LabAccess inserts / timestamp updates explored
MaxClock == 4
\* number of days that pass after StartDay
MaxDays == 1
\* number of days after the completion date followed by the evaluator specification
MaxEvalDays == 12
\* the month counts given to add_months are -MaxMonths .. MaxMonths
MaxMonths == 14
\* the greatest document version reached or acknowledged
MaxVersion == 2

(***************************************************************************)
(* Values.  A nullable integer column is <<>> (NULL) or <<n>>.             *)
(***************************************************************************)
NULL == <<>>
Some(n) == <<n>>

Date(y, m, d) == [year |-> y, month |-> m, day |-> d]

(***************************************************************************)
(* Calendar arithmetic.                                                    *)
(***************************************************************************)
IsLeap(y) == y % 4 = 0 /\ (y % 100 # 0 \/ y % 400 = 0)

DaysInMonth(y, m) ==
    <<31, IF IsLeap(y) THEN 29 ELSE 28, 31, 30, 31, 30, 31, 31, 30, 31, 30, 31>>[m]

Min(a, b) == IF a <= b THEN a ELSE b
Max(a, b) == IF a >= b THEN a ELSE b

\* AddMonths with every fourth year taken as a leap year (no century rule)
AddMonthsLeapEveryFourth(d, months) ==
    LET y == d.year + ((d.month - 1 + months) \div 12)
        m == ((d.month - 1 + months) % 12) + 1
        day == Min(d.day, <<31, IF y % 4 = 0 THEN 29 ELSE 28,
                            31, 30, 31, 30, 31, 31, 30, 31, 30, 31>>[m])
    IN  Date(y, m, day)

\* _add_months: Python's // and % floor, as \div and % do for a positive divisor
AddMonths(d, months) ==
    LET y == d.year + ((d.month - 1 + months) \div 12)
        m == ((d.month - 1 + months) % 12) + 1
        day == Min(d.day, DaysInMonth(y, m))
    IN  Date(y, m, day)

RECURSIVE DaysBeforeMonth(_, _)
DaysBeforeMonth(y, m) ==
    IF m = 1 THEN 0 ELSE DaysBeforeMonth(y, m - 1) + DaysInMonth(y, m - 1)

\* date.toordinal(): the proleptic Gregorian ordinal, 0001-01-01 being day 1
ToOrdinal(d) ==
    LET y1 == d.year - 1
    IN  365 * y1 + (y1 \div 4) - (y1 \div 100) + (y1 \div 400)
        + DaysBeforeMonth(d.year, d.month) + d.day

\* the calendar day after d: what date.today() returns one day later
NextDay(d) ==
    IF d.day < DaysInMonth(d.year, d.month) THEN Date(d.year, d.month, d.day + 1)
    ELSE IF d.month < 12 THEN Date(d.year, d.month + 1, 1)
    ELSE Date(d.year + 1, 1, 1)

(***************************************************************************)
(* State: the tables of models.py, the clock, and the last request.        *)
(***************************************************************************)
VARIABLES
    engineers,      \* Engineer ids
    labs,           \* Lab rows [id, grace_days]
    courses,        \* Course rows [id, valid_months]
    requirements,   \* LabRequirement rows [lab_id, course_id, valid_months]
    completions,    \* Completion rows [engineer_id, course_id, date_taken]
    documents,      \* Document rows [id, lab_id, title, version, mandatory]
    acks,           \* DocumentAck rows [id, engineer_id, document_id, version]
    lab_metrics,    \* LabMetrics rows [id, lab_id, asof, utilization, condition, activity]
    lab_access,     \* LabAccess rows [id, engineer_id, lab_id, status, reason_code, effective_at]
    clock,          \* number of LabAccess row ids / timestamps handed out so far
    today,          \* date.today()
    last,           \* the last request handled and its outcome
    ensure_calls,   \* the _ensure_access_state calls of the last request, with the row returned
    query,          \* the last evaluator call and its result
    audit_fails,    \* whether the write of an AuditLog row fails (utils_audit.audit raises)
    txns            \* the reconciliation requests in flight, each at its position

data_vars == <<engineers, labs, courses, requirements, completions, documents, acks,
               lab_metrics>>
vars == <<engineers, labs, courses, requirements, completions, documents, acks,
          lab_metrics, lab_access, clock, today, last, ensure_calls, query,
          audit_fails, txns>>
\* the state outside the tables: the audit log's availability and the requests in flight
env_vars == <<audit_fails, txns>>

Statuses == {"pending", "active", "revoked"}

(***************************************************************************)
(* Evaluators (read-only).                                                 *)
(***************************************************************************)
\* Lab.query.get / Course.query.get: the set of rows with that primary key (empty or one)
LabGet(lab_id) == {l \in labs : l.id = lab_id}
CourseGet(course_id) == {c \in courses : c.id = course_id}

\* LatestCompletion with the ordering reversed: the rows with the smallest date_taken
LatestCompletionOldest(engineer_id, course_id) ==
    LET mine == {c \in completions : c.engineer_id = engineer_id /\ c.course_id = course_id}
    IN  {c \in mine : \A o \in mine : ToOrdinal(c.date_taken) <= ToOrdinal(o.date_taken)}

\* _latest_completion: the rows of (engineer, course) with the greatest date_taken
LatestCompletion(engineer_id, course_id) ==
    LET mine == {c \in completions : c.engineer_id = engineer_id /\ c.course_id = course_id}
    IN  {c \in mine : \A o \in mine : ToOrdinal(o.date_taken) <= ToOrdinal(c.date_taken)}

\* IsTrainingCurrent falling back to the course default when the override is 0 or negative
IsTrainingCurrentOverrideFallback(engineer_id, course, override_months, grace_days, asof) ==
    LET months == IF override_months # NULL /\ override_months[1] > 0 THEN override_months
                  ELSE course.valid_months
    IN  IF months = NULL \/ months[1] = 0 \/ months[1] <= 0 THEN FALSE
        ELSE LET comp == LatestCompletion(engineer_id, course.id)
             IN  IF comp = {} THEN FALSE
                 ELSE LET due == AddMonths((CHOOSE c \in comp : TRUE).date_taken, months[1])
                          due_grace == ToOrdinal(due) + grace_days
                      IN  ToOrdinal(asof) <= due_grace

\* IsTrainingCurrent with the last day of the window left out (< for <=)
IsTrainingCurrentStrict(engineer_id, course, override_months, grace_days, asof) ==
    LET months == IF override_months # NULL THEN override_months ELSE course.valid_months
    IN  IF months = NULL \/ months[1] = 0 \/ months[1] <= 0 THEN FALSE
        ELSE LET comp == LatestCompletion(engineer_id, course.id)
             IN  IF comp = {} THEN FALSE
                 ELSE LET due == AddMonths((CHOOSE c \in comp : TRUE).date_taken, months[1])
                          due_grace == ToOrdinal(due) + grace_days
                      IN  ToOrdinal(asof) < due_grace

IsTrainingCurrent(engineer_id, course, override_months, grace_days, asof) ==
    LET months == IF override_months # NULL THEN override_months ELSE course.valid_months
    IN  IF months = NULL \/ months[1] = 0 \/ months[1] <= 0 THEN FALSE
        ELSE LET comp == LatestCompletion(engineer_id, course.id)
             IN  IF comp = {} THEN FALSE
                 ELSE LET due == AddMonths((CHOOSE c \in comp : TRUE).date_taken, months[1])
                          due_grace == ToOrdinal(due) + grace_days
                      IN  ToOrdinal(asof) <= due_grace

\* AcksLoop accepting an acknowledgment of the current or any later version (>= for =)
RECURSIVE AcksLoopAtLeastVersion(_, _)
AcksLoopAtLeastVersion(engineer_id, docs) ==
    IF docs = {} THEN TRUE
    ELSE LET d == CHOOSE x \in docs : TRUE
             ack == {a \in acks : a.engineer_id = engineer_id /\ a.document_id = d.id
                                    /\ a.version >= d.version}
         IN  IF ack = {} THEN FALSE ELSE AcksLoopAtLeastVersion(engineer_id, docs \ {d})

\* the for-loop of _has_required_acks over the mandatory documents still to visit
RECURSIVE AcksLoop(_, _)
AcksLoop(engineer_id, docs) ==
    IF docs = {} THEN TRUE
    ELSE LET d == CHOOSE x \in docs : TRUE
             ack == {a \in acks : a.engineer_id = engineer_id /\ a.document_id = d.id
                                    /\ a.version = d.version}
         IN  IF ack = {} THEN FALSE ELSE AcksLoop(engineer_id, docs \ {d})

HasRequiredAcks(engineer_id, lab_id) ==
    LET docs == {d \in documents : d.lab_id = lab_id /\ d.mandatory}
    IN  IF docs = {} THEN TRUE ELSE AcksLoop(engineer_id, docs)

\* the for-loop of is_compliant_for_lab over the requirements still to visit
RECURSIVE ReqsLoop(_, _, _, _)
ReqsLoop(engineer_id, lab, reqs, asof) ==
    IF reqs = {} THEN TRUE
    ELSE LET r == CHOOSE x \in reqs : TRUE
             course == CourseGet(r.course_id)
         IN  IF course = {} THEN FALSE
             ELSE IF ~IsTrainingCurrent(engineer_id, CHOOSE c \in course : TRUE,
                                        r.valid_months, lab.grace_days, asof) THEN FALSE
             ELSE ReqsLoop(engineer_id, lab, reqs \ {r}, asof)

\* IsCompliantForLab with the document acknowledgements left unchecked
IsCompliantForLabTrainingOnly(engineer_id, lab_id, asof) ==
    LET lab == LabGet(lab_id)
    IN  IF lab = {} THEN FALSE
        ELSE LET reqs == {r \in requirements : r.lab_id = lab_id}
             IN  IF ~ReqsLoop(engineer_id, CHOOSE l \in lab : TRUE, reqs, asof) THEN FALSE
                 ELSE TRUE

IsCompliantForLab(engineer_id, lab_id, asof) ==
    LET lab == LabGet(lab_id)
    IN  IF lab = {} THEN FALSE
        ELSE LET reqs == {r \in requirements : r.lab_id = lab_id}
             IN  IF ~ReqsLoop(engineer_id, CHOOSE l \in lab : TRUE, reqs, asof) THEN FALSE
                 ELSE IF ~HasRequiredAcks(engineer_id, lab_id) THEN FALSE
                 ELSE TRUE

(***************************************************************************)
(* The LabAccess state machine.                                            *)
(***************************************************************************)
PairRows(rows, engineer_id, lab_id) ==
    {r \in rows : r.engineer_id = engineer_id /\ r.lab_id = lab_id}

StatusRows(rows, engineer_id, lab_id, status) ==
    {r \in PairRows(rows, engineer_id, lab_id) : r.status = status}

LabAccessRow(id, engineer_id, lab_id, status, reason_code, effective_at) ==
    [id |-> id, engineer_id |-> engineer_id, lab_id |-> lab_id, status |-> status,
     reason_code |-> reason_code, effective_at |-> effective_at]

\* the unique constraint uq_access_unique_state on a candidate table
UniqueState(rows) ==
    \A r1, r2 \in rows :
        (r1.engineer_id = r2.engineer_id /\ r1.lab_id = r2.lab_id /\ r1.status = r2.status)
            => r1 = r2

\* EnsureAccessState without the early return: the pair's rows are always replaced
EnsureAccessStateAlwaysReplace(rows, now, engineer_id, lab_id, desired_status) ==
    LET row == LabAccessRow(now + 1, engineer_id, lab_id, desired_status, "none", now + 1)
    IN  [rows |-> (rows \ PairRows(rows, engineer_id, lab_id)) \cup {row},
         returned |-> row.id, clock |-> now + 1]

\* EnsureAccessState whose delete filters on the lab only: the rows of every engineer for
\* the lab are removed
EnsureAccessStateClearsLab(rows, now, engineer_id, lab_id, desired_status) ==
    LET existing == StatusRows(rows, engineer_id, lab_id, desired_status)
    IN  IF existing # {}
        THEN [rows |-> rows, returned |-> (CHOOSE r \in existing : TRUE).id, clock |-> now]
        ELSE LET row == LabAccessRow(now + 1, engineer_id, lab_id, desired_status,
                                     "none", now + 1)
             IN  [rows |-> {r \in rows : r.lab_id # lab_id} \cup {row},
                  returned |-> row.id, clock |-> now + 1]

\* _ensure_access_state on the table `rows` at clock value `now`:
\* the table it leaves, the id of the row it returns, and the clock afterwards
EnsureAccessState(rows, now, engineer_id, lab_id, desired_status) ==
    LET existing == StatusRows(rows, engineer_id, lab_id, desired_status)
    IN  IF existing # {}
        THEN [rows |-> rows, returned |-> (CHOOSE r \in existing : TRUE).id, clock |-> now]
        ELSE LET row == LabAccessRow(now + 1, engineer_id, lab_id, desired_status,
                                     "none", now + 1)
             IN  [rows |-> (rows \ PairRows(rows, engineer_id, lab_id)) \cup {row},
                  returned |-> row.id, clock |-> now + 1]

\* the record kept of one _ensure_access_state call: its arguments, the id of the row it
\* returned, and the id the same call returned in the request before (0 if that request
\* made no such call)
EnsureCall(engineer_id, lab_id, desired_status, returned) ==
    LET before == {c \in ensure_calls : c.engineer_id = engineer_id /\ c.lab_id = lab_id
                                         /\ c.desired_status = desired_status}
    IN  [engineer_id |-> engineer_id, lab_id |-> lab_id,
         desired_status |-> desired_status, returned |-> returned,
         repeat_of |-> IF before = {} THEN 0 ELSE (CHOOSE c \in before : TRUE).returned]

Last(op, engineer_id, lab_id, outcome, compliant, activated, revoked) ==
    [op |-> op, engineer_id |-> engineer_id, lab_id |-> lab_id, outcome |-> outcome,
     compliant |-> compliant, activated |-> activated, revoked |-> revoked]

\* the outcome of a request that has committed its change and then calls audit():
\* audit() adds the AuditLog row and commits, and its exception is not caught
Audited == IF audit_fails THEN "audit_error" ELSE "ok"

Query(fn, engineer_id, lab_id, course_id, override_months, grace_days, asof, result) ==
    [fn |-> fn, engineer_id |-> engineer_id, lab_id |-> lab_id, course_id |-> course_id,
     override_months |-> override_months, grace_days |-> grace_days, asof |-> asof,
     result |-> result]

NoQuery == Query("none", 0, 0, 0, NULL, 0, Date(1, 1, 1), FALSE)

\* RequestAccess that looks at the pair's rows first and refuses when it has any
RequestAccessRefusesExisting(engineer_id, lab_id) ==
    /\ clock < MaxClock
    /\ IF engineer_id \notin engineers \/ LabGet(lab_id) = {}
       THEN /\ last' = Last("request_access", engineer_id, lab_id, "not_found", FALSE, 0, 0)
            /\ UNCHANGED <<lab_access, clock>>
       ELSE LET la == LabAccessRow(clock + 1, engineer_id, lab_id, "pending",
                                   "requested", clock + 1)
            IN  IF PairRows(lab_access, engineer_id, lab_id) = {}
                THEN /\ lab_access' = lab_access \cup {la}
                     /\ clock' = clock + 1
                     /\ last' = Last("request_access", engineer_id, lab_id, Audited, FALSE, 0, 0)
                ELSE /\ last' = Last("request_access", engineer_id, lab_id,
                                     "integrity_error", FALSE, 0, 0)
                     /\ UNCHANGED <<lab_access, clock>>
    /\ ensure_calls' = {}
    /\ UNCHANGED <<data_vars, today, query, env_vars>>

\* request_access (routes/engineer.py)
RequestAccess(engineer_id, lab_id) ==
    /\ clock < MaxClock
    /\ IF engineer_id \notin engineers \/ LabGet(lab_id) = {}
       THEN /\ last' = Last("request_access", engineer_id, lab_id, "not_found", FALSE, 0, 0)
            /\ UNCHANGED <<lab_access, clock>>
       ELSE LET la == LabAccessRow(clock + 1, engineer_id, lab_id, "pending",
                                   "requested", clock + 1)
            IN  IF UniqueState(lab_access \cup {la})
                THEN /\ lab_access' = lab_access \cup {la}
                     /\ clock' = clock + 1
                     /\ last' = Last("request_access", engineer_id, lab_id, Audited, FALSE, 0, 0)
                ELSE \* IntegrityError at commit: the request fails, nothing is stored
                     /\ last' = Last("request_access", engineer_id, lab_id,
                                     "integrity_error", FALSE, 0, 0)
                     /\ UNCHANGED <<lab_access, clock>>
    /\ ensure_calls' = {}
    /\ UNCHANGED <<data_vars, today, query, env_vars>>

\* CancelRequest on a table without the unique constraint: the flip is always stored
CancelRequestUnchecked(engineer_id, lab_id) ==
    /\ clock < MaxClock
    /\ LET pending == StatusRows(lab_access, engineer_id, lab_id, "pending")
           row == CHOOSE r \in pending :
                      \A o \in pending : o.effective_at <= r.effective_at
           flipped == [row EXCEPT !.status = "revoked", !.reason_code = "user_cancelled",
                                  !.effective_at = clock + 1]
       IN  IF pending = {}
           THEN /\ last' = Last("cancel_request", engineer_id, lab_id, "no_pending", FALSE, 0, 0)
                /\ UNCHANGED <<lab_access, clock>>
           ELSE /\ lab_access' = (lab_access \ {row}) \cup {flipped}
                /\ clock' = clock + 1
                /\ last' = Last("cancel_request", engineer_id, lab_id, Audited, FALSE, 0, 0)
    /\ ensure_calls' = {}
    /\ UNCHANGED <<data_vars, today, query, env_vars>>

\* cancel_request (routes/engineer.py)
CancelRequest(engineer_id, lab_id) ==
    /\ clock < MaxClock
    /\ LET pending == StatusRows(lab_access, engineer_id, lab_id, "pending")
           row == CHOOSE r \in pending :
                      \A o \in pending : o.effective_at <= r.effective_at
           flipped == [row EXCEPT !.status = "revoked", !.reason_code = "user_cancelled",
                                  !.effective_at = clock + 1]
           after == (lab_access \ {row}) \cup {flipped}
       IN  IF pending = {}
           THEN /\ last' = Last("cancel_request", engineer_id, lab_id, "no_pending", FALSE, 0, 0)
                /\ UNCHANGED <<lab_access, clock>>
           ELSE IF UniqueState(after)
           THEN /\ lab_access' = after
                /\ clock' = clock + 1
                /\ last' = Last("cancel_request", engineer_id, lab_id, Audited, FALSE, 0, 0)
           ELSE \* IntegrityError at commit: a revoked row of the pair already exists
                /\ last' = Last("cancel_request", engineer_id, lab_id,
                                "integrity_error", FALSE, 0, 0)
                /\ UNCHANGED <<lab_access, clock>>
    /\ ensure_calls' = {}
    /\ UNCHANGED <<data_vars, today, query, env_vars>>

\* whether the database checks the foreign keys of a LabAccess row of (engineer_id, lab_id)
\* at commit: a row of an existing engineer and lab passes on every database; for a missing
\* engineer or lab, SQLite (the default database) stores the row and MySQL rejects it
ForeignKeyChecked(engineer_id, lab_id) ==
    IF engineer_id \in engineers /\ LabGet(lab_id) # {} THEN {FALSE} ELSE BOOLEAN

\* Approve that asks for an active row whatever is_compliant_for_lab returns
ApproveWithoutCheck(engineer_id, lab_id) ==
    LET compliant == IsCompliantForLab(engineer_id, lab_id, today)
        desired == "active"
        res == EnsureAccessState(lab_access, clock, engineer_id, lab_id, desired)
    IN  \E checked \in ForeignKeyChecked(engineer_id, lab_id) :
            IF checked /\ res.rows # lab_access
            THEN \* IntegrityError at commit: the request fails, nothing is stored
                 /\ last' = Last("approve", engineer_id, lab_id, "integrity_error",
                                 compliant, 0, 0)
                 /\ ensure_calls' = {}
                 /\ UNCHANGED <<data_vars, lab_access, clock, today, query, env_vars>>
            ELSE /\ res.clock <= MaxClock
                 /\ lab_access' = res.rows
                 /\ clock' = res.clock
                 /\ ensure_calls' = {EnsureCall(engineer_id, lab_id, desired, res.returned)}
                 /\ last' = Last("approve", engineer_id, lab_id, Audited, compliant, 0, 0)
                 /\ UNCHANGED <<data_vars, today, query, env_vars>>

\* approve (routes/manager.py)
Approve(engineer_id, lab_id) ==
    LET compliant == IsCompliantForLab(engineer_id, lab_id, today)
        desired == IF compliant THEN "active" ELSE "pending"
        res == EnsureAccessState(lab_access, clock, engineer_id, lab_id, desired)
    IN  \E checked \in ForeignKeyChecked(engineer_id, lab_id) :
            IF checked /\ res.rows # lab_access
            THEN \* IntegrityError at commit: the request fails, nothing is stored
                 /\ last' = Last("approve", engineer_id, lab_id, "integrity_error",
                                 compliant, 0, 0)
                 /\ ensure_calls' = {}
                 /\ UNCHANGED <<data_vars, lab_access, clock, today, query, env_vars>>
            ELSE /\ res.clock <= MaxClock
                 /\ lab_access' = res.rows
                 /\ clock' = res.clock
                 /\ ensure_calls' = {EnsureCall(engineer_id, lab_id, desired, res.returned)}
                 /\ last' = Last("approve", engineer_id, lab_id, Audited, compliant, 0, 0)
                 /\ UNCHANGED <<data_vars, today, query, env_vars>>

\* revoke (routes/manager.py)
Revoke(engineer_id, lab_id) ==
    LET res == EnsureAccessState(lab_access, clock, engineer_id, lab_id, "revoked")
    IN  \E checked \in ForeignKeyChecked(engineer_id, lab_id) :
            IF checked /\ res.rows # lab_access
            THEN \* IntegrityError at commit: the request fails, nothing is stored
                 /\ last' = Last("revoke", engineer_id, lab_id, "integrity_error",
                                 FALSE, 0, 0)
                 /\ ensure_calls' = {}
                 /\ UNCHANGED <<data_vars, lab_access, clock, today, query, env_vars>>
            ELSE /\ res.clock <= MaxClock
                 /\ lab_access' = res.rows
                 /\ clock' = res.clock
                 /\ ensure_calls' = {EnsureCall(engineer_id, lab_id, "revoked", res.returned)}
                 /\ last' = Last("revoke", engineer_id, lab_id, Audited, FALSE, 0, 0)
                 /\ UNCHANGED <<data_vars, today, query, env_vars>>

\* autocheck's query: one (engineer_id, lab_id, status) tuple per pending or active row
SweepTuples(rows) ==
    {<<r.engineer_id, r.lab_id, r.status>> : r \in {x \in rows : x.status \in {"pending", "active"}}}

\* the orders in which the query may return the tuples (no ORDER BY)
Orders(S) ==
    {o \in [1..Cardinality(S) -> S] : \A i, j \in 1..Cardinality(S) : o[i] = o[j] => i = j}

\* SweepStep that leaves a pending tuple alone when its pair has a revoked row
SweepStepKeepsRevoked(st, t, asof) ==
    LET compliant == IsCompliantForLab(t[1], t[2], asof)
                        /\ (t[3] = "pending" => StatusRows(st.rows, t[1], t[2], "revoked") = {})
    IN  IF st.aborted THEN st
        ELSE IF t[3] = "pending" /\ compliant
        THEN LET res == EnsureAccessState(st.rows, st.clock, t[1], t[2], "active")
             IN  IF audit_fails THEN [st EXCEPT !.aborted = TRUE]
                 ELSE [rows |-> res.rows, clock |-> res.clock,
                       changed_active |-> st.changed_active + 1,
                       changed_revoked |-> st.changed_revoked,
                       calls |-> st.calls \cup {EnsureCall(t[1], t[2], "active", res.returned)},
                       aborted |-> FALSE]
        ELSE IF t[3] = "active" /\ ~compliant
        THEN LET res == EnsureAccessState(st.rows, st.clock, t[1], t[2], "revoked")
             IN  IF audit_fails THEN [st EXCEPT !.aborted = TRUE]
                 ELSE [rows |-> res.rows, clock |-> res.clock,
                       changed_active |-> st.changed_active,
                       changed_revoked |-> st.changed_revoked + 1,
                       calls |-> st.calls \cup {EnsureCall(t[1], t[2], "revoked", res.returned)},
                       aborted |-> FALSE]
        ELSE st

\* the body of autocheck's for-loop for one tuple, on the sweep state st.
\* _ensure_access_state leaves the pair's change uncommitted and audit() commits it
\* together with the AuditLog row: when that write fails the exception leaves the loop
\* (st.aborted) and the uncommitted change of the pair is rolled back with the session
SweepStep(st, t, asof) ==
    LET compliant == IsCompliantForLab(t[1], t[2], asof)
    IN  IF st.aborted THEN st
        ELSE IF t[3] = "pending" /\ compliant
        THEN LET res == EnsureAccessState(st.rows, st.clock, t[1], t[2], "active")
             IN  IF audit_fails THEN [st EXCEPT !.aborted = TRUE]
                 ELSE [rows |-> res.rows, clock |-> res.clock,
                       changed_active |-> st.changed_active + 1,
                       changed_revoked |-> st.changed_revoked,
                       calls |-> st.calls \cup {EnsureCall(t[1], t[2], "active", res.returned)},
                       aborted |-> FALSE]
        ELSE IF t[3] = "active" /\ ~compliant
        THEN LET res == EnsureAccessState(st.rows, st.clock, t[1], t[2], "revoked")
             IN  IF audit_fails THEN [st EXCEPT !.aborted = TRUE]
                 ELSE [rows |-> res.rows, clock |-> res.clock,
                       changed_active |-> st.changed_active,
                       changed_revoked |-> st.changed_revoked + 1,
                       calls |-> st.calls \cup {EnsureCall(t[1], t[2], "revoked", res.returned)},
                       aborted |-> FALSE]
        ELSE st

RECURSIVE SweepLoop(_, _, _, _)
SweepLoop(st, pairs, i, asof) ==
    IF i > Len(pairs) THEN st
    ELSE CHOOSE out \in {SweepLoop(nxt, pairs, i + 1, asof) :
                             nxt \in {SweepStep(st, pairs[i], asof)}} : TRUE

\* a whole autocheck sweep over the table `rows`, the tuples visited in the order `pairs`
Sweep(rows, now, pairs, asof) ==
    SweepLoop([rows |-> rows, clock |-> now, changed_active |-> 0, changed_revoked |-> 0,
               calls |-> {}, aborted |-> FALSE], pairs, 1, asof)

\* autocheck (routes/manager.py)
Autocheck ==
    \E pairs \in Orders(SweepTuples(lab_access)) :
        \E res \in {Sweep(lab_access, clock, pairs, today)} :
            /\ res.clock <= MaxClock
            /\ lab_access' = res.rows
            /\ clock' = res.clock
            /\ ensure_calls' = res.calls
            /\ last' = IF res.aborted
                       THEN Last("autocheck", 0, 0, "audit_error", FALSE, 0, 0)
                       ELSE Last("autocheck", 0, 0, "ok", FALSE,
                                 res.changed_active, res.changed_revoked)
            /\ UNCHANGED <<data_vars, today, query, env_vars>>

(***************************************************************************)
(* The compliance data changes: a completion is recorded, a document is    *)
(* acknowledged, a day passes.                                             *)
(***************************************************************************)
\* add_completion (routes/admin.py); a duplicate (engineer, course, date) is refused
AddCompletion(engineer_id, course_id, date_taken) ==
    LET c == [engineer_id |-> engineer_id, course_id |-> course_id, date_taken |-> date_taken]
    IN  /\ completions' = completions \cup {c}
        /\ last' = Last("add_completion", 0, 0,
                        IF c \in completions THEN "integrity_error" ELSE "ok", FALSE, 0, 0)
        /\ ensure_calls' = {}
        /\ UNCHANGED <<engineers, labs, courses, requirements, documents, acks,
                       lab_metrics, lab_access, clock, today, query, env_vars>>

\* AcknowledgeDocument without the look-up of an existing acknowledgment
AcknowledgeDocumentAgain(engineer_id, document_id) ==
    \E doc \in {d \in documents : d.id = document_id} :
        LET ack == [id |-> Cardinality(acks) + 1, engineer_id |-> engineer_id,
                    document_id |-> document_id, version |-> doc.version]
        IN  /\ acks' = acks \cup {ack}
            /\ last' = Last("acknowledge_document", 0, 0, Audited, FALSE, 0, 0)
            /\ ensure_calls' = {}
            /\ UNCHANGED <<engineers, labs, courses, requirements, completions, documents,
                           lab_metrics, lab_access, clock, today, query, env_vars>>

\* acknowledge_document (routes/engineer.py): acknowledges the document's current version
AcknowledgeDocument(engineer_id, document_id) ==
    \E doc \in {d \in documents : d.id = document_id} :
        LET existing == {a \in acks : a.engineer_id = engineer_id
                                       /\ a.document_id = document_id
                                       /\ a.version = doc.version}
            ack == [id |-> Cardinality(acks) + 1, engineer_id |-> engineer_id,
                    document_id |-> document_id, version |-> doc.version]
        IN  /\ acks' = IF existing # {} THEN acks ELSE acks \cup {ack}
            /\ last' = Last("acknowledge_document", 0, 0,
                            IF existing # {} THEN "ok" ELSE Audited, FALSE, 0, 0)
            /\ ensure_calls' = {}
            /\ UNCHANGED <<engineers, labs, courses, requirements, completions, documents,
                           lab_metrics, lab_access, clock, today, query, env_vars>>

\* the unique constraint uq_ack_one_per_version on a candidate table
UniqueAck(rows) ==
    \A a1, a2 \in rows :
        (a1.engineer_id = a2.engineer_id /\ a1.document_id = a2.document_id
            /\ a1.version = a2.version) => a1 = a2

\* ack_document (routes/admin.py): the administrator records an acknowledgment of the
\* version given in the form; a duplicate is refused by the unique constraint and
\* reported as "Already acknowledged this version."
AckDocument(engineer_id, document_id, version) ==
    LET a == [id |-> Cardinality(acks) + 1, engineer_id |-> engineer_id,
              document_id |-> document_id, version |-> version]
    IN  /\ IF UniqueAck(acks \cup {a})
           THEN /\ acks' = acks \cup {a}
                /\ last' = Last("ack_document", 0, 0, "ok", FALSE, 0, 0)
           ELSE /\ acks' = acks
                /\ last' = Last("ack_document", 0, 0, "duplicate", FALSE, 0, 0)
        /\ ensure_calls' = {}
        /\ UNCHANGED <<engineers, labs, courses, requirements, completions, documents,
                       lab_metrics, lab_access, clock, today, query, env_vars>>

\* a new version of a document is published: its row's version is raised by one
\* (doc.version = 2; db.session.commit() in tests/test_compliance.py)
RaiseDocumentVersion(document_id) ==
    \E doc \in {d \in documents : d.id = document_id} :
        /\ doc.version < MaxVersion
        /\ documents' = (documents \ {doc}) \cup {[doc EXCEPT !.version = doc.version + 1]}
        /\ last' = Last("raise_document_version", 0, doc.lab_id, "ok", FALSE, 0, 0)
        /\ ensure_calls' = {}
        /\ UNCHANGED <<engineers, labs, courses, requirements, completions, acks,
                       lab_metrics, lab_access, clock, today, query, env_vars>>

\* MetricsSave that inserts a row on every save, without the look-up of the day's row
MetricsSaveInsertOnly(lab_id, utilization, condition, activity, asof_str) ==
    LET asof == IF asof_str # NULL THEN asof_str[1] ELSE today
        util == Max(0, Min(utilization, 100))
        cond == Max(0, Min(condition, 100))
        act == Max(0, Min(activity, 100))
    IN  /\ lab_metrics' = lab_metrics \cup
               {[id |-> Cardinality(lab_metrics) + 1, lab_id |-> lab_id, asof |-> asof,
                 utilization |-> util, condition |-> cond, activity |-> act]}
        /\ last' = Last("save_metrics", 0, lab_id, Audited, FALSE, 0, 0)
        /\ ensure_calls' = {}
        /\ UNCHANGED <<engineers, labs, courses, requirements, completions, documents, acks,
                       lab_access, clock, today, query, env_vars>>

\* metrics_save (routes/manager.py); asof_str is NULL when the form gives no date
MetricsSave(lab_id, utilization, condition, activity, asof_str) ==
    LET asof == IF asof_str # NULL THEN asof_str[1] ELSE today
        util == Max(0, Min(utilization, 100))
        cond == Max(0, Min(condition, 100))
        act == Max(0, Min(activity, 100))
        found == {r \in lab_metrics : r.lab_id = lab_id /\ r.asof = asof}
    IN  /\ IF found = {}
           THEN lab_metrics' = lab_metrics \cup
                    {[id |-> Cardinality(lab_metrics) + 1, lab_id |-> lab_id, asof |-> asof,
                      utilization |-> util, condition |-> cond, activity |-> act]}
           ELSE LET row == CHOOSE r \in found : TRUE
                IN  lab_metrics' = (lab_metrics \ {row}) \cup
                        {[row EXCEPT !.utilization = util, !.condition = cond,
                                     !.activity = act]}
        /\ last' = Last("save_metrics", 0, lab_id, Audited, FALSE, 0, 0)
        /\ ensure_calls' = {}
        /\ UNCHANGED <<engineers, labs, courses, requirements, completions, documents, acks,
                       lab_access, clock, today, query, env_vars>>

\* the first day of the model and the completion dates an administrator enters
StartDay == Date(2024, 2, 29)
TakenDates == {Date(2024, 1, 31)}

\* midnight passes: date.today() moves to the next calendar day
AdvanceDay ==
    /\ ToOrdinal(today) - ToOrdinal(StartDay) < MaxDays
    /\ today' = NextDay(today)
    /\ last' = Last("advance_day", 0, 0, "ok", FALSE, 0, 0)
    /\ ensure_calls' = {}
    /\ UNCHANGED <<data_vars, lab_access, clock, query, env_vars>>

(***************************************************************************)
(* Spec: two engineers, one lab that requires one course (valid one month) *)
(* and one mandatory document; no completions, acknowledgments or access   *)
(* rows yet.                                                               *)
(***************************************************************************)
EngineerIds == {1, 2}
\* the ids a request may name: the engineers and one id that does not exist
RequestEngineerIds == EngineerIds \cup {3}
LabIds == {1}
CourseIds == {1}

Init ==
    /\ engineers = EngineerIds
    /\ labs = {[id |-> 1, grace_days |-> 0]}
    /\ courses = {[id |-> 1, valid_months |-> Some(1)]}
    /\ requirements = {[lab_id |-> 1, course_id |-> 1, valid_months |-> NULL]}
    /\ completions = {}
    /\ documents = {[id |-> 1, lab_id |-> 1, title |-> "manual", version |-> 1,
                     mandatory |-> TRUE]}
    /\ acks = {}
    /\ lab_metrics = {}
    /\ lab_access = {}
    /\ clock = 0
    /\ today = StartDay
    /\ last = Last("init", 0, 0, "ok", FALSE, 0, 0)
    /\ ensure_calls = {}
    /\ query = NoQuery
    /\ audit_fails = FALSE
    /\ txns = <<>>

Next ==
    \/ \E e \in RequestEngineerIds, l \in LabIds : RequestAccess(e, l)
    \/ \E e \in EngineerIds, l \in LabIds : CancelRequest(e, l)
    \/ \E e \in EngineerIds, l \in LabIds : Approve(e, l)
    \/ \E e \in EngineerIds, l \in LabIds : Revoke(e, l)
    \/ Autocheck
    \/ \E e \in EngineerIds, c \in CourseIds, d \in TakenDates : AddCompletion(e, c, d)
    \/ \E e \in EngineerIds, d \in {1} : AcknowledgeDocument(e, d)
    \/ AdvanceDay

Spec == Init /\ [][Next]_vars

(***************************************************************************)
(* Properties of the access state machine, checked under Spec.             *)
(***************************************************************************)
Pairs == EngineerIds \X LabIds

HasRow(engineer_id, lab_id, status) ==
    StatusRows(lab_access, engineer_id, lab_id, status) # {}

\* C1: after a successful revoke(e, l) the pair has a revoked row, no active row and no
\* pending row, whatever rows it had before and whatever its compliance
C1_RevokeLeavesOnlyRevoked ==
    (last.op = "revoke" /\ last.outcome = "ok") =>
        /\ HasRow(last.engineer_id, last.lab_id, "revoked")
        /\ ~HasRow(last.engineer_id, last.lab_id, "active")
        /\ ~HasRow(last.engineer_id, last.lab_id, "pending")

\* C2: after a successful approve(e, l) a compliant pair has an active row; a non-compliant
\* pair has a pending row and no active row
C2_ApproveFollowsCompliance ==
    (last.op = "approve" /\ last.outcome = "ok") =>
        IF IsCompliantForLab(last.engineer_id, last.lab_id, today)
        THEN HasRow(last.engineer_id, last.lab_id, "active")
        ELSE /\ HasRow(last.engineer_id, last.lab_id, "pending")
             /\ ~HasRow(last.engineer_id, last.lab_id, "active")

\* C3: a pair that has a revoked row (and no active row) gets an active row only by a
\* manual approve of that pair: no request_access, cancel_request, revoke or autocheck
\* step takes it to a state with an active row
C3_RevokedLeftOnlyByApprove ==
    [][\A p \in Pairs :
          (/\ HasRow(p[1], p[2], "revoked")
           /\ ~HasRow(p[1], p[2], "active")
           /\ ~(last'.op = "approve" /\ last'.engineer_id = p[1] /\ last'.lab_id = p[2]))
          => StatusRows(lab_access', p[1], p[2], "active") = {}]_vars

\* C4: after an autocheck sweep no pair that is non-compliant as of today has an active row
C4_SweepLeavesNoNoncompliantActive ==
    last.op = "autocheck" =>
        \A p \in Pairs :
            ~IsCompliantForLab(p[1], p[2], today) => ~HasRow(p[1], p[2], "active")

\* C5: a sweep counts exactly one activation for every pair that is pending and
\* compliant when it runs, and leaves that pair an active row and no pending row
C5_PendingCompliantActivatedOnce ==
    [][last'.op = "autocheck" =>
          LET due == {p \in Pairs : /\ HasRow(p[1], p[2], "pending")
                                    /\ IsCompliantForLab(p[1], p[2], today)}
          IN  /\ last'.activated = Cardinality(due)
              /\ \A p \in due :
                    /\ StatusRows(lab_access', p[1], p[2], "active") # {}
                    /\ StatusRows(lab_access', p[1], p[2], "pending") = {}]_vars

\* C6: a second autocheck sweep right after a sweep, with no data change in between,
\* activates nothing, revokes nothing and leaves the LabAccess rows as they are
C6_SecondSweepChangesNothing ==
    last.op = "autocheck" =>
        \A pairs \in Orders(SweepTuples(lab_access)) :
            LET again == Sweep(lab_access, clock, pairs, today)
            IN  /\ again.changed_active = 0
                /\ again.changed_revoked = 0
                /\ again.rows = lab_access

\* C7: after ensure_state(e, l, s) exactly one LabAccess row exists for (e, l) and its
\* status is s
C7_EnsureLeavesSingleRow ==
    \A c \in ensure_calls :
        LET rows == PairRows(lab_access, c.engineer_id, c.lab_id)
        IN  /\ Cardinality(rows) = 1
            /\ \A r \in rows : r.status = c.desired_status

\* C8: ensure_state(e, l, s) called again right after ensure_state(e, l, s) returns the
\* row the first call left, inserts and deletes nothing and leaves effective_at unchanged
C8_EnsureTwiceSameRow ==
    [][\A c \in ensure_calls' :
          c.repeat_of # 0 =>
              /\ c.returned = c.repeat_of
              /\ PairRows(lab_access', c.engineer_id, c.lab_id)
                     = PairRows(lab_access, c.engineer_id, c.lab_id)
              /\ \E r \in lab_access' : r.id = c.returned /\ r.status = c.desired_status]_vars

\* a second ensure_state call in succession has returned a row
C8_Witness ==
    \E c \in ensure_calls :
        /\ c.repeat_of # 0
        /\ \E r \in lab_access : r.id = c.returned
        /\ Cardinality(PairRows(lab_access, c.engineer_id, c.lab_id)) > 1

\* C15 as claimed: request_access(e, l) for an existing engineer and lab always succeeds
\* and inserts a new row with status pending, reason 'requested' and effective_at = now,
\* whatever rows the pair has, so that repeated requests accumulate pending rows
C15_RequestAlwaysInserts ==
    [][(/\ last'.op = "request_access"
        /\ last'.engineer_id \in engineers
        /\ LabGet(last'.lab_id) # {})
       => /\ last'.outcome = "ok"
          /\ \E r \in lab_access' \ lab_access :
                /\ lab_access' = lab_access \cup {r}
                /\ r.engineer_id = last'.engineer_id /\ r.lab_id = last'.lab_id
                /\ r.status = "pending" /\ r.reason_code = "requested"
                /\ r.effective_at = clock']_vars

\* C15 as amended: request_access(e, l) for an existing engineer and lab does not look at
\* the pair's rows; it inserts a new row with status pending, reason 'requested' and
\* effective_at = now, and succeeds whenever the pair has no pending row (also beside an
\* active or a revoked row); when the pair already has a pending row the unique constraint
\* rejects the insert, the request fails and the table is unchanged, so a pair never
\* has more than one pending row
C15_RequestInsertsUnlessPending ==
    [][(/\ last'.op = "request_access"
        /\ last'.engineer_id \in engineers
        /\ LabGet(last'.lab_id) # {})
       => /\ IF StatusRows(lab_access, last'.engineer_id, last'.lab_id, "pending") = {}
             THEN /\ last'.outcome = "ok"
                  /\ \E r \in lab_access' \ lab_access :
                        /\ lab_access' = lab_access \cup {r}
                        /\ r.engineer_id = last'.engineer_id /\ r.lab_id = last'.lab_id
                        /\ r.status = "pending" /\ r.reason_code = "requested"
                        /\ r.effective_at = clock'
             ELSE /\ last'.outcome = "integrity_error"
                  /\ lab_access' = lab_access
          /\ Cardinality(StatusRows(lab_access', last'.engineer_id, last'.lab_id,
                                    "pending")) = 1]_vars

\* a request has been stored beside the pair's active or revoked row, and a repeated
\* request of the same pair has then been rejected
C15_Witness ==
    /\ last.op = "request_access"
    /\ last.outcome = "integrity_error"
    /\ HasRow(last.engineer_id, last.lab_id, "pending")
    /\ HasRow(last.engineer_id, last.lab_id, "active")
           \/ HasRow(last.engineer_id, last.lab_id, "revoked")

\* C16: cancel_request(e, l) from every reachable state of the pair: if the pair has a
\* pending row the operation succeeds, that row becomes revoked with reason
\* 'user_cancelled' and the pair has no pending row afterwards; if it has none an error is
\* reported and no LabAccess row is changed
C16_CancelFlipsPendingRow ==
    [][last'.op = "cancel_request" =>
          LET pending == StatusRows(lab_access, last'.engineer_id, last'.lab_id, "pending")
          IN  IF pending # {}
              THEN /\ last'.outcome = "ok"
                   /\ \E p \in pending, r \in lab_access' :
                         /\ r.id = p.id
                         /\ r.status = "revoked" /\ r.reason_code = "user_cancelled"
                   /\ StatusRows(lab_access', last'.engineer_id, last'.lab_id,
                                 "pending") = {}
              ELSE /\ last'.outcome = "no_pending"
                   /\ lab_access' = lab_access]_vars

\* C17: in every reachable state there is at most one LabAccess row per
\* (engineer, lab, status) and every row's status is pending, active or revoked
C17_OneRowPerStatus ==
    /\ \A r1, r2 \in lab_access :
          (r1.engineer_id = r2.engineer_id /\ r1.lab_id = r2.lab_id /\ r1.status = r2.status)
              => r1.id = r2.id
    /\ \A r1, r2 \in lab_access : r1.id = r2.id => r1 = r2
    /\ \A r \in lab_access : r.status \in {"pending", "active", "revoked"}

\* a pair has rows of two statuses and a cancel_request that would have given it a second
\* revoked row has been rejected
C17_Witness ==
    /\ last.op = "cancel_request"
    /\ last.outcome = "integrity_error"
    /\ HasRow(last.engineer_id, last.lab_id, "pending")
    /\ HasRow(last.engineer_id, last.lab_id, "revoked")

\* C23: an autocheck sweep leaves in the table, unchanged, every row that before the sweep
\* is revoked, or is pending for a pair that is not compliant, or is active for a pair
\* that is compliant.
C23_SweepLeavesSettledRows ==
    [][last'.op = "autocheck" =>
          \A r \in lab_access :
              (\/ r.status = "revoked"
               \/ r.status = "pending" /\ ~IsCompliantForLab(r.engineer_id, r.lab_id, today)
               \/ r.status = "active" /\ IsCompliantForLab(r.engineer_id, r.lab_id, today))
                  => r \in lab_access']_vars

\* C25: the activated count of an autocheck sweep is the number of pairs without an
\* active row before the sweep and with one after it, and the revoked count is the number
\* of pairs with an active row before the sweep and without one after it.
C25_CountsMatchChanges ==
    [][(last'.op = "autocheck" /\ last'.outcome = "ok") =>
          /\ last'.activated =
                 Cardinality({p \in Pairs :
                                 /\ StatusRows(lab_access, p[1], p[2], "active") = {}
                                 /\ StatusRows(lab_access', p[1], p[2], "active") # {}})
          /\ last'.revoked =
                 Cardinality({p \in Pairs :
                                 /\ StatusRows(lab_access, p[1], p[2], "active") # {}
                                 /\ StatusRows(lab_access', p[1], p[2], "active") = {}})]_vars

\* C28: an active LabAccess row is created only by approve or by autocheck, and only in a
\* step in which is_compliant_for_lab is true for the row's pair as of that day;
\* request_access, cancel_request and revoke never create one.
C28_ActiveOnlyWhenCompliant ==
    [][\A r \in lab_access' :
          (r.status = "active" /\ r \notin lab_access) =>
              /\ last'.op \in {"approve", "autocheck"}
              /\ IsCompliantForLab(r.engineer_id, r.lab_id, today)
              /\ today' = today]_vars

\* autocheck has just created the active row of a pending compliant pair
C28_Witness ==
    /\ last.op = "autocheck" /\ last.activated = 1
    /\ \E r \in lab_access : r.status = "active" /\ r.id = clock
    /\ \E c \in ensure_calls : c.desired_status = "active" /\ c.returned = clock

(***************************************************************************)
(* SpecIds: the access requests called with ids of an engineer and a lab   *)
(* that do not exist, from the same initial state as Spec.                 *)
(***************************************************************************)
\* engineer 1 and lab 1 exist; engineer 3 and lab 2 do not
IdsEngineerIds == {1, 3}
IdsLabIds == {1, 2}

NextIds ==
    \/ \E e \in IdsEngineerIds, l \in IdsLabIds : RequestAccess(e, l)
    \/ \E e \in IdsEngineerIds, l \in IdsLabIds : CancelRequest(e, l)
    \/ \E e \in IdsEngineerIds, l \in IdsLabIds : Approve(e, l)
    \/ \E e \in IdsEngineerIds, l \in IdsLabIds : Revoke(e, l)
    \/ Autocheck

SpecIds == Init /\ [][NextIds]_vars

\* C18: approve, revoke and request_access called with an engineer id or a lab id that
\* does not exist fail without side effect: no LabAccess row is created, changed or
\* deleted, and the outcome is reported as not-found
C18_MissingIdsNotFound ==
    [][(/\ last'.op \in {"approve", "revoke", "request_access"}
        /\ \/ last'.engineer_id \notin engineers
           \/ LabGet(last'.lab_id) = {})
       => /\ lab_access' = lab_access
          /\ last'.outcome = "not_found"]_vars

(***************************************************************************)
(* SpecEval: the evaluators on their own.  The tables are drawn from small *)
(* sets, days pass, and is_training_current / is_compliant_for_lab are     *)
(* called as of today.                                                     *)
(***************************************************************************)
EvalStartDay == Date(2024, 2, 27)

EvalLabs == {{}, {[id |-> 1, grace_days |-> 0]}, {[id |-> 1, grace_days |-> 7]}}
EvalCourses ==
    {{[id |-> 1, valid_months |-> Some(1)]},
     {[id |-> 1, valid_months |-> Some(1)], [id |-> 2, valid_months |-> Some(2)]},
     {[id |-> 1, valid_months |-> NULL], [id |-> 2, valid_months |-> Some(0)]}}
EvalRequirements ==
    {{},
     {[lab_id |-> 1, course_id |-> 1, valid_months |-> NULL]},
     {[lab_id |-> 1, course_id |-> 1, valid_months |-> Some(2)]},
     {[lab_id |-> 1, course_id |-> 1, valid_months |-> NULL],
      [lab_id |-> 1, course_id |-> 2, valid_months |-> NULL]}}
EvalCompletions ==
    SUBSET {[engineer_id |-> 1, course_id |-> 1, date_taken |-> Date(2024, 1, 31)],
            [engineer_id |-> 1, course_id |-> 1, date_taken |-> Date(2024, 1, 28)],
            [engineer_id |-> 1, course_id |-> 2, date_taken |-> Date(2023, 12, 31)]}
EvalDocuments ==
    {{},
     {[id |-> 1, lab_id |-> 1, title |-> "manual", version |-> 2, mandatory |-> TRUE],
      [id |-> 2, lab_id |-> 1, title |-> "notes", version |-> 1, mandatory |-> FALSE]}}
EvalAcks ==
    {{},
     {[id |-> 1, engineer_id |-> 1, document_id |-> 1, version |-> 1]},
     {[id |-> 1, engineer_id |-> 1, document_id |-> 1, version |-> 2]},
     {[id |-> 1, engineer_id |-> 1, document_id |-> 1, version |-> 1],
      [id |-> 2, engineer_id |-> 1, document_id |-> 1, version |-> 3]}}
EvalOverrides == {NULL, Some(2), Some(0), Some(-1)}
EvalGraceDays == {0, 7}

InitEval ==
    /\ engineers = {1}
    /\ labs \in EvalLabs
    /\ courses \in EvalCourses
    /\ requirements \in EvalRequirements
    /\ completions \in EvalCompletions
    /\ documents \in EvalDocuments
    /\ acks \in EvalAcks
    /\ lab_metrics = {}
    /\ lab_access = {}
    /\ clock = 0
    /\ today = EvalStartDay
    /\ last = Last("init", 0, 0, "ok", FALSE, 0, 0)
    /\ ensure_calls = {}
    /\ query = NoQuery
    /\ audit_fails = FALSE
    /\ txns = <<>>

\* midnight passes
EvalAdvanceDay ==
    /\ ToOrdinal(today) - ToOrdinal(EvalStartDay) < MaxEvalDays
    /\ today' = NextDay(today)
    /\ query' = NoQuery
    /\ UNCHANGED <<data_vars, lab_access, clock, last, ensure_calls, env_vars>>

\* a call of _is_training_current as of today
QueryTraining(engineer_id, course, override_months, grace_days) ==
    /\ query' = Query("is_training_current", engineer_id, 0, course.id, override_months,
                      grace_days, today,
                      IsTrainingCurrent(engineer_id, course, override_months, grace_days, today))
    /\ UNCHANGED <<data_vars, lab_access, clock, today, last, ensure_calls, env_vars>>

\* a call of is_compliant_for_lab as of today (api_compliance_status, the dashboards)
QueryCompliance(engineer_id, lab_id) ==
    /\ query' = Query("is_compliant_for_lab", engineer_id, lab_id, 0, NULL, 0, today,
                      IsCompliantForLab(engineer_id, lab_id, today))
    /\ UNCHANGED <<data_vars, lab_access, clock, today, last, ensure_calls, env_vars>>

NextEval ==
    \/ EvalAdvanceDay
    \/ \E c \in courses, o \in EvalOverrides, g \in EvalGraceDays : QueryTraining(1, c, o, g)
    \/ \E l \in LabIds : QueryCompliance(1, l)

SpecEval == InitEval /\ [][NextEval]_vars

(***************************************************************************)
(* Properties of the evaluators, checked under SpecEval.                   *)
(***************************************************************************)
\* a is the same day as b or an earlier one
DateLE(a, b) ==
    \/ a.year < b.year
    \/ a.year = b.year /\ a.month < b.month
    \/ a.year = b.year /\ a.month = b.month /\ a.day <= b.day

\* the number of calendar days from a to the later day b
RECURSIVE DaysBetween(_, _)
DaysBetween(a, b) == IF a = b THEN 0 ELSE 1 + DaysBetween(NextDay(a), b)

\* C9: is_compliant_for_lab(e, l, d) is true iff the lab exists, every requirement of the
\* lab resolves to an existing course whose training is current, and every mandatory
\* document of the lab is acknowledged by e at its current version; so it is true for a
\* lab with no requirement and no mandatory document, and false whenever a required
\* course has no completion
C9_CompliantIffAllHold ==
    query.fn = "is_compliant_for_lab" =>
        LET e == query.engineer_id
            lab == {x \in labs : x.id = query.lab_id}
            reqs == {r \in requirements : r.lab_id = query.lab_id}
            mandatory == {d \in documents : d.lab_id = query.lab_id /\ d.mandatory}
            training_ok ==
                \A r \in reqs : \E c \in courses :
                    /\ c.id = r.course_id
                    /\ \A x \in lab :
                          IsTrainingCurrent(e, c, r.valid_months, x.grace_days, query.asof)
            docs_ok ==
                \A d \in mandatory : \E a \in acks :
                    a.engineer_id = e /\ a.document_id = d.id /\ a.version = d.version
            uncompleted ==
                \E r \in reqs : \A c \in completions :
                    ~(c.engineer_id = e /\ c.course_id = r.course_id)
        IN  /\ query.result = (lab # {} /\ training_ok /\ docs_ok)
            /\ (lab # {} /\ reqs = {} /\ mandatory = {}) => query.result
            /\ (lab # {} /\ uncompleted) => ~query.result

\* is_compliant_for_lab has answered true for a lab with a requirement and a mandatory document
C9_Witness ==
    /\ query.fn = "is_compliant_for_lab"
    /\ query.result
    /\ \E r \in requirements : r.lab_id = query.lab_id
    /\ \E d \in documents : d.lab_id = query.lab_id /\ d.mandatory

\* C10: with an effective validity m > 0 and a latest completion dated t,
\* is_training_current is true on every day up to add_months(t, m) plus grace_days
\* calendar days and false on every later day
C10_CurrentUntilDuePlusGrace ==
    query.fn = "is_training_current" =>
        \A course \in {c \in courses : c.id = query.course_id} :
            LET months == IF query.override_months # NULL THEN query.override_months
                          ELSE course.valid_months
                mine == {c \in completions : c.engineer_id = query.engineer_id
                                              /\ c.course_id = course.id}
            IN  (months # NULL /\ mine # {}) =>
                    (months[1] > 0 =>
                        LET t == (CHOOSE c \in mine :
                                     \A o \in mine : DateLE(o.date_taken, c.date_taken)).date_taken
                            due == AddMonths(t, months[1])
                        IN  query.result =
                                (\/ DateLE(query.asof, due)
                                 \/ DaysBetween(due, query.asof) <= query.grace_days))

\* is_training_current has answered false on the first day after due date + 7 grace days
C10_Witness ==
    /\ query.fn = "is_training_current"
    /\ ~query.result
    /\ query.grace_days = 7
    /\ \E c \in completions :
          /\ c.engineer_id = query.engineer_id /\ c.course_id = query.course_id
          /\ \E m \in 1..2 : ~DateLE(query.asof, AddMonths(c.date_taken, m))
                              /\ DaysBetween(AddMonths(c.date_taken, m), query.asof) = 8

\* as_of is no later than grace_days calendar days after add_months(t, m)
WithinWindow(t, m, grace_days, as_of) ==
    LET due == AddMonths(t, m)
    IN  DateLE(as_of, due) \/ DaysBetween(due, as_of) <= grace_days

\* C11: the validity window of is_training_current is the override whenever the override is
\* non-null (also when it is 0 or negative) and the course default otherwise; when that
\* effective value is null or <= 0 the result is false whatever the completions and the
\* date, and when it is positive the window of the latest completion is measured with it
C11_EffectiveValidityDecides ==
    query.fn = "is_training_current" =>
        \A course \in {c \in courses : c.id = query.course_id} :
            LET effective == IF query.override_months # NULL THEN query.override_months
                             ELSE course.valid_months
                mine == {c \in completions : c.engineer_id = query.engineer_id
                                              /\ c.course_id = course.id}
            IN  IF effective = NULL THEN ~query.result
                ELSE IF effective[1] <= 0 THEN ~query.result
                ELSE query.result =
                         (/\ mine # {}
                          /\ \A c \in mine :
                                (\A o \in mine : DateLE(o.date_taken, c.date_taken))
                                    => WithinWindow(c.date_taken, effective[1],
                                                    query.grace_days, query.asof))

\* is_training_current has answered false under a 0 or negative override although the
\* course default would have made the engineer's completion current
C11_Witness ==
    /\ query.fn = "is_training_current"
    /\ ~query.result
    /\ query.override_months # NULL
    /\ query.override_months[1] <= 0
    /\ \E course \in courses, c \in completions :
          /\ course.id = query.course_id
          /\ course.valid_months = Some(1)
          /\ c.engineer_id = query.engineer_id /\ c.course_id = course.id
          /\ WithinWindow(c.date_taken, 1, query.grace_days, query.asof)

\* C13: with several completions of a course the verdict of is_training_current is the one
\* the completion with the greatest date_taken gives, and that loses nothing: the result is
\* true iff at least one completion c has as_of <= add_months(c.date_taken, m) + grace_days,
\* so the verdict is the same without any of the older completions
C13_LatestCompletionLosesNothing ==
    query.fn = "is_training_current" =>
        \A course \in {c \in courses : c.id = query.course_id} :
            LET m == IF query.override_months # NULL THEN query.override_months
                     ELSE course.valid_months
                mine == {c \in completions : c.engineer_id = query.engineer_id
                                              /\ c.course_id = course.id}
                latest == {c \in mine : \A o \in mine : DateLE(o.date_taken, c.date_taken)}
                Some_current(cs) ==
                    \E c \in cs : WithinWindow(c.date_taken, m[1], query.grace_days, query.asof)
            IN  (m # NULL /\ mine # {}) =>
                    (m[1] > 0 =>
                        /\ query.result = Some_current(latest)
                        /\ query.result = Some_current(mine)
                        /\ \A o \in mine \ latest : query.result = Some_current(mine \ {o}))

\* is_training_current has answered true for an engineer whose older completion of the
\* course is out of its window while the latest one is within it
C13_Witness ==
    /\ query.fn = "is_training_current"
    /\ query.result
    /\ query.override_months = NULL
    /\ \E course \in courses, old \in completions, new \in completions :
          /\ course.id = query.course_id
          /\ course.valid_months = Some(1)
          /\ old.engineer_id = query.engineer_id /\ old.course_id = course.id
          /\ new.engineer_id = query.engineer_id /\ new.course_id = course.id
          /\ ~DateLE(new.date_taken, old.date_taken)
          /\ ~WithinWindow(old.date_taken, 1, query.grace_days, query.asof)
          /\ WithinWindow(new.date_taken, 1, query.grace_days, query.asof)

(***************************************************************************)
(* SpecCal: _add_months on its own.  A call is drawn from every valid date *)
(* of three years (a common year, a leap year, a century year that is not  *)
(* a leap year) and every month count of -MaxMonths .. MaxMonths, and then *)
(* evaluated.                                                              *)
(***************************************************************************)
CalYears == {2023, 2024, 2100}

\* the dates datetime.date accepts in those years
CalDates ==
    {dt \in [year : CalYears, month : 1..12, day : 1..31] :
        dt.day <= DaysInMonth(dt.year, dt.month)}

\* a call of _add_months(d, months) and the date it returned (NULL until it returns)
AddMonthsCall(fn, d, months, result) ==
    [fn |-> fn, d |-> d, months |-> months, result |-> result]

InitCal ==
    /\ engineers = {}
    /\ labs = {}
    /\ courses = {}
    /\ requirements = {}
    /\ completions = {}
    /\ documents = {}
    /\ acks = {}
    /\ lab_metrics = {}
    /\ lab_access = {}
    /\ clock = 0
    /\ today = StartDay
    /\ last = Last("init", 0, 0, "ok", FALSE, 0, 0)
    /\ ensure_calls = {}
    /\ query \in {AddMonthsCall("call_add_months", d, months, NULL) :
                     d \in CalDates, months \in (0 - MaxMonths)..MaxMonths}
    /\ audit_fails = FALSE
    /\ txns = <<>>

\* the call returns
ReturnAddMonths ==
    /\ query.fn = "call_add_months"
    /\ query' = AddMonthsCall("add_months", query.d, query.months,
                              AddMonths(query.d, query.months))
    /\ UNCHANGED <<data_vars, lab_access, clock, today, last, ensure_calls, env_vars>>

NextCal == ReturnAddMonths

SpecCal == InitCal /\ [][NextCal]_vars

(***************************************************************************)
(* Properties of the calendar arithmetic, checked under SpecCal.           *)
(***************************************************************************)
\* the year and month k months after (k > 0) or before (k < 0) month m of year y
RECURSIVE ShiftMonth(_, _, _)
ShiftMonth(y, m, k) ==
    IF k = 0 THEN <<y, m>>
    ELSE IF k > 0 THEN (IF m = 12 THEN ShiftMonth(y + 1, 1, k - 1)
                        ELSE ShiftMonth(y, m + 1, k - 1))
    ELSE (IF m = 1 THEN ShiftMonth(y - 1, 12, k + 1) ELSE ShiftMonth(y, m - 1, k + 1))

\* the number of days of month m of year y in the Gregorian calendar
GregorianMonthLength(y, m) ==
    IF m \in {4, 6, 9, 11} THEN 30
    ELSE IF m # 2 THEN 31
    ELSE IF y % 400 = 0 THEN 29
    ELSE IF y % 100 = 0 THEN 28
    ELSE IF y % 4 = 0 THEN 29
    ELSE 28

\* C14: add_months(d, months), for a positive, zero or negative month count, returns the
\* date whose year and month are d's shifted by that many months (rolling over year
\* boundaries) and whose day is min(d.day, length of that month under the Gregorian leap
\* rule); 2024-01-31 + 1 = 2024-02-29, 2023-01-31 + 1 = 2023-02-28,
\* 2024-03-31 - 1 = 2024-02-29
C14_AddMonthsShiftsAndClamps ==
    query.fn = "add_months" =>
        LET ym == ShiftMonth(query.d.year, query.d.month, query.months)
            len == GregorianMonthLength(ym[1], ym[2])
        IN  /\ query.result.year = ym[1]
            /\ query.result.month = ym[2]
            /\ query.result.day = (IF query.d.day <= len THEN query.d.day ELSE len)
            /\ (query.d = Date(2024, 1, 31) /\ query.months = 1)
                   => query.result = Date(2024, 2, 29)
            /\ (query.d = Date(2023, 1, 31) /\ query.months = 1)
                   => query.result = Date(2023, 2, 28)
            /\ (query.d = Date(2024, 3, 31) /\ query.months = 0 - 1)
                   => query.result = Date(2024, 2, 29)

\* add_months has returned for a negative month count that goes back over a year boundary
\* and clamps the day to the last day of February
C14_Witness ==
    /\ query.fn = "add_months"
    /\ query.d = Date(2024, 3, 31)
    /\ query.months < 0 - 12
    /\ query.result = Date(2023, 2, 28)

(***************************************************************************)
(* SpecDocs: documents and acknowledgments.  Two engineers whose training  *)
(* is current, one lab with one mandatory document at version 1; the       *)
(* engineers acknowledge it, the administrator records acknowledgments of  *)
(* any version, and new versions of the document are published.            *)
(***************************************************************************)
DocumentIds == {1}

InitDocs ==
    /\ engineers = EngineerIds
    /\ labs = {[id |-> 1, grace_days |-> 0]}
    /\ courses = {[id |-> 1, valid_months |-> Some(1)]}
    /\ requirements = {[lab_id |-> 1, course_id |-> 1, valid_months |-> NULL]}
    /\ completions = {[engineer_id |-> e, course_id |-> 1, date_taken |-> d] :
                         e \in EngineerIds, d \in TakenDates}
    /\ documents = {[id |-> 1, lab_id |-> 1, title |-> "manual", version |-> 1,
                     mandatory |-> TRUE]}
    /\ acks = {}
    /\ lab_metrics = {}
    /\ lab_access = {}
    /\ clock = 0
    /\ today = StartDay
    /\ last = Last("init", 0, 0, "ok", FALSE, 0, 0)
    /\ ensure_calls = {}
    /\ query = NoQuery
    /\ audit_fails = FALSE
    /\ txns = <<>>

NextDocs ==
    \/ \E e \in EngineerIds, d \in DocumentIds : AcknowledgeDocument(e, d)
    \/ \E e \in EngineerIds, d \in DocumentIds, v \in 1..MaxVersion : AckDocument(e, d, v)
    \/ \E d \in DocumentIds : RaiseDocumentVersion(d)

SpecDocs == InitDocs /\ [][NextDocs]_vars

(***************************************************************************)
(* Properties of documents and acknowledgments, checked under SpecDocs.    *)
(***************************************************************************)
\* e has an acknowledgment of document d at exactly its current version
AckedAtCurrentVersion(e, d) ==
    \E a \in acks : a.engineer_id = e /\ a.document_id = d.id /\ a.version = d.version

\* has_required_acks(e, l) holds exactly when e has, for each mandatory document of l, an
\* acknowledgment whose version equals the document's current version
AcksMatchExactly ==
    \A e \in engineers, l \in LabIds :
        HasRequiredAcks(e, l) =
            (\A d \in {x \in documents : x.lab_id = l /\ x.mandatory} :
                AckedAtCurrentVersion(e, d))

\* the mandatory documents of lab l whose version this step raises
Raised(l) ==
    {d \in documents : /\ d.lab_id = l /\ d.mandatory
                       /\ \E n \in documents' : n.id = d.id /\ n.version > d.version}

\* C12 as claimed: has_required_acks(e, l) holds only for acknowledgments of exactly the
\* current version of each mandatory document (older and newer versions never count), and
\* when a document's version is raised and no acknowledgment is recorded, every engineer
\* who was compliant becomes non-compliant
C12_VersionRaiseInvalidates ==
    /\ []AcksMatchExactly
    /\ [][\A e \in engineers, l \in LabIds :
             (/\ Raised(l) # {}
              /\ acks' = acks
              /\ IsCompliantForLab(e, l, today))
             => ~IsCompliantForLab(e, l, today)']_vars

\* C12 as amended: has_required_acks(e, l) holds only for acknowledgments of exactly the
\* current version of each mandatory document (older and newer versions never count), and
\* when a document's version is raised and no acknowledgment is recorded, every engineer
\* who was compliant becomes non-compliant unless an acknowledgment of the raised version
\* was already recorded for that engineer
C12_VersionRaiseInvalidatesUnlessAcked ==
    /\ []AcksMatchExactly
    /\ [][\A e \in engineers, l \in LabIds :
             (/\ Raised(l) # {}
              /\ acks' = acks
              /\ IsCompliantForLab(e, l, today)
              /\ \E d \in Raised(l) : \A a \in acks :
                    ~(a.engineer_id = e /\ a.document_id = d.id /\ a.version = d.version + 1))
             => ~IsCompliantForLab(e, l, today)']_vars

\* the document stands at version 2, one engineer has acknowledged versions 1 and 2 and is
\* compliant, the other has acknowledged only version 1 and is not
C12_Witness ==
    /\ last.op = "raise_document_version"
    /\ \E d \in documents : d.id = 1 /\ d.version = 2
    /\ \E e1, e2 \in engineers :
          /\ IsCompliantForLab(e1, 1, today)
          /\ ~IsCompliantForLab(e2, 1, today)
          /\ \E a \in acks : a.engineer_id = e2 /\ a.document_id = 1 /\ a.version = 1

\* C19: acknowledging the same (engineer, document, version) again, through the engineer
\* route or the admin route, completes without error, creates no second row and leaves
\* the existing acknowledgment unchanged; there is at most one DocumentAck per
\* (engineer, document, version) in every reachable state
C19_RepeatedAckKeepsOneRow ==
    /\ [](\A a1, a2 \in acks :
             (a1.engineer_id = a2.engineer_id /\ a1.document_id = a2.document_id
                 /\ a1.version = a2.version) => a1.id = a2.id)
    /\ [][/\ \A e \in engineers, d \in documents :
                (AcknowledgeDocument(e, d.id) /\ AckedAtCurrentVersion(e, d))
                    => (acks' = acks /\ last'.outcome = "ok")
          /\ \A e \in engineers, d \in documents, v \in 1..MaxVersion :
                (/\ AckDocument(e, d.id, v)
                 /\ \E a \in acks : a.engineer_id = e /\ a.document_id = d.id /\ a.version = v)
                    => (acks' = acks /\ last'.outcome = "duplicate")]_vars

\* the administrator has recorded again an acknowledgment the engineer had made, and it
\* was reported as already acknowledged
C19_Witness ==
    /\ last.op = "ack_document"
    /\ last.outcome = "duplicate"
    /\ \E a \in acks, d \in documents : a.document_id = d.id /\ a.version = d.version

(***************************************************************************)
(* SpecMetrics: the daily metrics snapshots of two labs, saved for today   *)
(* or for a date given in the form, with values inside and outside 0..100. *)
(***************************************************************************)
MetricsLabIds == {1, 2}
\* the (utilization, condition, activity) triples of the form
MetricsInputs == {<<0 - 1, 0, 101>>, <<101, 0 - 1, 100>>, <<50, 100, 0>>, <<0, 50, 150>>}
\* the asof field of the form: empty, or a date
MetricsAsofs == {NULL, Some(Date(2024, 2, 28))}

InitMetrics ==
    /\ engineers = {}
    /\ labs = {[id |-> 1, grace_days |-> 0], [id |-> 2, grace_days |-> 7]}
    /\ courses = {}
    /\ requirements = {}
    /\ completions = {}
    /\ documents = {}
    /\ acks = {}
    /\ lab_metrics = {}
    /\ lab_access = {}
    /\ clock = 0
    /\ today = StartDay
    /\ last = Last("init", 0, 0, "ok", FALSE, 0, 0)
    /\ ensure_calls = {}
    /\ query = NoQuery
    /\ audit_fails = FALSE
    /\ txns = <<>>

NextMetrics ==
    \E l \in MetricsLabIds, t \in MetricsInputs, a \in MetricsAsofs :
        MetricsSave(l, t[1], t[2], t[3], a)

SpecMetrics == InitMetrics /\ [][NextMetrics]_vars

(***************************************************************************)
(* Properties of the metrics snapshots, checked under SpecMetrics.         *)
(***************************************************************************)
\* v brought into 0 .. 100
Clamped(v) == IF v < 0 THEN 0 ELSE IF v > 100 THEN 100 ELSE v

\* C20: there is at most one LabMetrics row per (lab, date); after a save its utilization,
\* condition and activity are the inputs of that save, each clamped into [0, 100], and the
\* rows of every other (lab, date) are unchanged
C20_MetricsUpsertPerDay ==
    /\ [](\A r1, r2 \in lab_metrics :
             (r1.lab_id = r2.lab_id /\ r1.asof = r2.asof) => r1 = r2)
    /\ [][\A l \in MetricsLabIds, t \in MetricsInputs, a \in MetricsAsofs :
             MetricsSave(l, t[1], t[2], t[3], a) =>
                 LET day == IF a = NULL THEN today ELSE a[1]
                     Keyed(rows) == {r \in rows : r.lab_id = l /\ r.asof = day}
                 IN  /\ Cardinality(Keyed(lab_metrics')) = 1
                     /\ \A r \in Keyed(lab_metrics') :
                           /\ r.utilization = Clamped(t[1])
                           /\ r.condition = Clamped(t[2])
                           /\ r.activity = Clamped(t[3])
                     /\ lab_metrics' \ Keyed(lab_metrics') = lab_metrics \ Keyed(lab_metrics)]_vars

\* the first row saved, of lab 1, has been overwritten by a later save with out-of-range
\* inputs after a row of lab 2 was saved
C20_Witness ==
    /\ last.op = "save_metrics"
    /\ last.lab_id = 1
    /\ Cardinality(lab_metrics) = 2
    /\ \E r1, r2 \in lab_metrics :
          /\ r1.id = 1 /\ r1.lab_id = 1
          /\ r1.utilization = 100 /\ r1.condition = 0 /\ r1.activity = 100
          /\ r2.id = 2 /\ r2.lab_id = 2

(***************************************************************************)
(* SpecAuth: requests to the routes guarded by require_roles, with every   *)
(* combination of Authorization header and jwt cookie.                     *)
(***************************************************************************)
\* what a request carries in a place for a token: nothing, a token that does not decode
\* (bad signature, expired, wrong issuer), or a valid token, named by the role in its payload
AuthTokens == {"none", "invalid", "engineer", "admin"}

\* the guarded routes: their method and the roles given to require_roles
GuardedRoutes ==
    {[name |-> "approve", method |-> "POST", roles |-> {"manager", "admin"}],
     [name |-> "revoke", method |-> "POST", roles |-> {"manager", "admin"}],
     [name |-> "autocheck", method |-> "POST", roles |-> {"manager", "admin"}],
     [name |-> "save_metrics", method |-> "POST", roles |-> {"manager", "admin"}],
     [name |-> "request_access", method |-> "POST", roles |-> {"engineer", "manager", "admin"}],
     [name |-> "report_active_csv", method |-> "GET", roles |-> {"admin", "manager"}]}

\* parse_jwt: the payload's role, or None when the token does not decode
ParseJwt(token) == IF token = "invalid" THEN NULL ELSE Some(token)

\* current_token_payload: the Authorization header is used when present, else the cookie
CurrentTokenPayload(bearer, cookie) ==
    IF bearer # "none" THEN ParseJwt(bearer)
    ELSE IF cookie # "none" THEN ParseJwt(cookie)
    ELSE NULL

\* the before_request hook attach_user: an unauthenticated GET that accepts text/html is
\* redirected to the login form before the route is reached (the guarded routes are all
\* outside /auth, /static and /apidocs)
AttachUserRedirects(route, bearer, cookie, wants_html) ==
    CurrentTokenPayload(bearer, cookie) = NULL /\ route.method = "GET" /\ wants_html

\* RequireRoles without the role test: every valid token runs the handler
RequireRolesAnyRole(roles, bearer, cookie) ==
    LET payload == CurrentTokenPayload(bearer, cookie)
    IN  IF payload = NULL THEN "401"
        ELSE "run"

\* the wrapper of require_roles(*roles): the status it answers, or "run" for fn(...)
RequireRoles(roles, bearer, cookie) ==
    LET payload == CurrentTokenPayload(bearer, cookie)
    IN  IF payload = NULL THEN "401"
        ELSE IF roles # {} /\ payload[1] \notin roles THEN "403"
        ELSE "run"

\* a request answered without its handler
Answer(route, status) ==
    /\ last' = Last(route.name, 0, 0, status, FALSE, 0, 0)
    /\ ensure_calls' = {}
    /\ UNCHANGED <<data_vars, lab_access, clock, today, query, env_vars>>

\* report_active_csv (routes/admin.py): reads the active rows, writes nothing
ReportActiveCsv ==
    /\ last' = Last("report_active_csv", 0, 0, "ok", FALSE,
                    Cardinality({r \in lab_access : r.status = "active"}), 0)
    /\ ensure_calls' = {}
    /\ UNCHANGED <<data_vars, lab_access, clock, today, query, env_vars>>

AuthEngineerIds == {1}

\* the view function behind each guarded route
Handler(route) ==
    CASE route.name = "approve" -> \E e \in AuthEngineerIds, l \in LabIds : Approve(e, l)
      [] route.name = "revoke" -> \E e \in AuthEngineerIds, l \in LabIds : Revoke(e, l)
      [] route.name = "autocheck" -> Autocheck
      [] route.name = "save_metrics" -> MetricsSave(1, 50, 50, 50, NULL)
      [] route.name = "request_access" ->
             \E e \in AuthEngineerIds, l \in LabIds : RequestAccess(e, l)
      [] route.name = "report_active_csv" -> ReportActiveCsv

\* one request to a guarded route: the before_request hook, then the wrapper, then the view
Request(route, bearer, cookie, wants_html) ==
    IF AttachUserRedirects(route, bearer, cookie, wants_html) THEN Answer(route, "302")
    ELSE LET decision == RequireRoles(route.roles, bearer, cookie)
         IN  IF decision = "run" THEN Handler(route) ELSE Answer(route, decision)

NextAuth ==
    \E route \in GuardedRoutes, bearer \in AuthTokens, cookie \in AuthTokens,
       wants_html \in BOOLEAN : Request(route, bearer, cookie, wants_html)

SpecAuth == Init /\ [][NextAuth]_vars

\* a request that was answered by the hook or the wrapper, its handler not run
Refused(l) == l.outcome \in {"401", "403", "302"}

TablesUnchanged == UNCHANGED <<data_vars, lab_access, clock, today>>

\* C21 as stated: the handler of a route guarded by require_roles(R) runs only for a valid
\* token whose role is in R; a request with no or an invalid token is answered 401 and one
\* with a role outside R is answered 403, both without any change of state.
C21_GuardAnswers401Or403 ==
    [][\A route \in GuardedRoutes, bearer \in AuthTokens, cookie \in AuthTokens,
          wants_html \in BOOLEAN :
          Request(route, bearer, cookie, wants_html) =>
              LET payload == CurrentTokenPayload(bearer, cookie)
              IN  /\ ~Refused(last') => (payload # NULL /\ payload[1] \in route.roles)
                  /\ payload = NULL => (last'.outcome = "401" /\ TablesUnchanged)
                  /\ (payload # NULL /\ payload[1] \notin route.roles)
                         => (last'.outcome = "403" /\ TablesUnchanged)]_vars

\* C21 (amended): the handler of a route guarded by require_roles(R) runs only for a valid
\* token whose role is in R; a request with a role outside R is answered 403; a request
\* with no or an invalid token is answered 401, except that a GET request accepting
\* text/html is redirected (302) to the login form by the before_request hook; in each of
\* these cases nothing changes.
C21_GuardRefusesWithoutChange ==
    [][\A route \in GuardedRoutes, bearer \in AuthTokens, cookie \in AuthTokens,
          wants_html \in BOOLEAN :
          Request(route, bearer, cookie, wants_html) =>
              LET payload == CurrentTokenPayload(bearer, cookie)
              IN  /\ ~Refused(last') => (payload # NULL /\ payload[1] \in route.roles)
                  /\ payload = NULL =>
                         /\ last'.outcome = IF route.method = "GET" /\ wants_html
                                            THEN "302" ELSE "401"
                         /\ TablesUnchanged
                  /\ (payload # NULL /\ payload[1] \notin route.roles)
                         => (last'.outcome = "403" /\ TablesUnchanged)]_vars

\* an approve request refused with 403 while the pair has a pending row
C21_Witness ==
    /\ last.op = "approve" /\ last.outcome = "403"
    /\ \E r \in lab_access : r.status = "pending"

(***************************************************************************)
(* SpecAudit: the state-changing requests while the AuditLog write works   *)
(* or fails. Engineer 1 is compliant for lab 1, engineer 2 is not.         *)
(***************************************************************************)
InitAudit ==
    /\ engineers = EngineerIds
    /\ labs = {[id |-> 1, grace_days |-> 0]}
    /\ courses = {[id |-> 1, valid_months |-> Some(1)]}
    /\ requirements = {[lab_id |-> 1, course_id |-> 1, valid_months |-> NULL]}
    /\ completions = {[engineer_id |-> 1, course_id |-> 1, date_taken |-> d] :
                         d \in TakenDates}
    /\ documents = {[id |-> 1, lab_id |-> 1, title |-> "manual", version |-> 1,
                     mandatory |-> TRUE]}
    /\ acks = {[id |-> 1, engineer_id |-> 1, document_id |-> 1, version |-> 1]}
    /\ lab_metrics = {}
    /\ lab_access = {}
    /\ clock = 0
    /\ today = StartDay
    /\ last = Last("init", 0, 0, "ok", FALSE, 0, 0)
    /\ ensure_calls = {}
    /\ query = NoQuery
    /\ audit_fails \in BOOLEAN
    /\ txns = <<>>

NextAudit ==
    \/ \E e \in EngineerIds, l \in LabIds : RequestAccess(e, l)
    \/ \E e \in EngineerIds, l \in LabIds : CancelRequest(e, l)
    \/ \E e \in EngineerIds, l \in LabIds : Approve(e, l)
    \/ \E e \in EngineerIds, l \in LabIds : Revoke(e, l)
    \/ Autocheck
    \/ \E l \in LabIds : MetricsSave(l, 50, 50, 50, NULL)

SpecAudit == InitAudit /\ [][NextAudit]_vars

\* C22: when the audit write of a state-changing request fails, the change the request
\* was making is committed all the same: the requested pending row, the cancelled row,
\* the row approve or revoke ensures, the day's metrics row, and in autocheck the active
\* row of every pending compliant pair and the revoked row of every active non-compliant
\* pair.
C22_AuditFailureKeepsChange ==
    [][(audit_fails /\ last'.outcome = "audit_error") =>
          LET e == last'.engineer_id
              l == last'.lab_id
          IN  /\ last'.op = "request_access" => StatusRows(lab_access', e, l, "pending") # {}
              /\ last'.op = "cancel_request" => StatusRows(lab_access', e, l, "revoked") # {}
              /\ last'.op = "approve" =>
                     StatusRows(lab_access', e, l,
                                IF last'.compliant THEN "active" ELSE "pending") # {}
              /\ last'.op = "revoke" => StatusRows(lab_access', e, l, "revoked") # {}
              /\ last'.op = "save_metrics" =>
                     \E r \in lab_metrics' : r.lab_id = l /\ r.asof = today
                                              /\ r.utilization = 50
              /\ last'.op = "autocheck" =>
                     \A p \in Pairs :
                         /\ (HasRow(p[1], p[2], "pending")
                                /\ IsCompliantForLab(p[1], p[2], today))
                                => HasRow(p[1], p[2], "active")'
                         /\ (HasRow(p[1], p[2], "active")
                                /\ ~IsCompliantForLab(p[1], p[2], today))
                                => HasRow(p[1], p[2], "revoked")']_vars

(***************************************************************************)
(* SpecConc: two reconciliation requests on the pair (1, 1) served at the  *)
(* same time, each by its own worker and database session. Engineer 1 is   *)
(* compliant or not; the pair starts with any set of rows that the         *)
(* requests of Spec can leave (one row per status at most).                *)
(***************************************************************************)
ConcTxns == {1, 2}
ConcOps == {"approve", "revoke", "autocheck"}
ConcEngineer == 1
ConcLab == 1

\* a row that earlier requests left; its id lies outside the ids handed out from `clock`
SeedRow(engineer_id, lab_id, status) ==
    LabAccessRow(10 * engineer_id + (CASE status = "pending" -> 1
                                       [] status = "active" -> 2
                                       [] status = "revoked" -> 3),
                 engineer_id, lab_id, status, "none", 0)

Txn(pc, op, desired) == [pc |-> pc, op |-> op, desired |-> desired]

InitConc ==
    /\ engineers = EngineerIds
    /\ labs = {[id |-> 1, grace_days |-> 0]}
    /\ courses = {[id |-> 1, valid_months |-> Some(1)]}
    /\ requirements = {[lab_id |-> 1, course_id |-> 1, valid_months |-> NULL]}
    /\ completions \in {{}, {[engineer_id |-> 1, course_id |-> 1, date_taken |-> d] :
                                d \in TakenDates}}
    /\ documents = {[id |-> 1, lab_id |-> 1, title |-> "manual", version |-> 1,
                     mandatory |-> TRUE]}
    /\ acks = {[id |-> 1, engineer_id |-> 1, document_id |-> 1, version |-> 1]}
    /\ lab_metrics = {}
    /\ lab_access \in {{SeedRow(ConcEngineer, ConcLab, s) : s \in cfg} :
                          cfg \in SUBSET Statuses}
    /\ clock = 0
    /\ today = StartDay
    /\ last = Last("init", 0, 0, "ok", FALSE, 0, 0)
    /\ ensure_calls = {}
    /\ query = NoQuery
    /\ audit_fails = FALSE
    /\ txns = [t \in ConcTxns |-> Txn("start", "none", "none")]

\* the request of worker t reaches _ensure_access_state: approve has evaluated
\* is_compliant_for_lab, revoke asks for "revoked", and autocheck's loop is at a tuple of
\* the pair that its query returned and that calls for an update (pending and compliant,
\* or active and not compliant)
Begin(t, op) ==
    /\ txns[t].pc = "start"
    /\ LET compliant == IsCompliantForLab(ConcEngineer, ConcLab, today)
       IN  CASE op = "approve" ->
                    txns' = [txns EXCEPT ![t] = Txn("read", op, IF compliant THEN "active"
                                                                ELSE "pending")]
             [] op = "revoke" ->
                    txns' = [txns EXCEPT ![t] = Txn("read", op, "revoked")]
             [] op = "autocheck" ->
                    \E tuple \in {x \in SweepTuples(lab_access) :
                                     /\ x[1] = ConcEngineer /\ x[2] = ConcLab
                                     /\ \/ x[3] = "pending" /\ compliant
                                        \/ x[3] = "active" /\ ~compliant} :
                        txns' = [txns EXCEPT ![t] =
                                    Txn("read", op, IF tuple[3] = "pending" THEN "active"
                                                    ELSE "revoked")]
    /\ UNCHANGED <<data_vars, lab_access, clock, today, last, ensure_calls, query,
                   audit_fails>>

\* the first statement of _ensure_access_state: the query for a row of the desired
\* status; when there is one the function returns it and the request commits no change
ReadExisting(t) ==
    /\ txns[t].pc = "read"
    /\ LET existing == StatusRows(lab_access, ConcEngineer, ConcLab, txns[t].desired)
       IN  txns' = [txns EXCEPT ![t].pc = IF existing # {} THEN "done" ELSE "write"]
    /\ UNCHANGED <<data_vars, lab_access, clock, today, last, ensure_calls, query,
                   audit_fails>>

\* the rest of _ensure_access_state and the commit of the request: the DELETE of the
\* pair's rows, the INSERT of the new row, COMMIT. The DELETE takes the database's write
\* lock (SQLite) or the locks on the pair's rows and gaps (InnoDB) and holds them until the
\* commit, so no statement of the other request falls between them
DeleteInsertCommit(t) ==
    /\ txns[t].pc = "write"
    /\ clock < MaxClock
    /\ LET row == LabAccessRow(clock + 1, ConcEngineer, ConcLab, txns[t].desired,
                               "none", clock + 1)
       IN  lab_access' = (lab_access \ PairRows(lab_access, ConcEngineer, ConcLab))
                             \cup {row}
    /\ clock' = clock + 1
    /\ txns' = [txns EXCEPT ![t].pc = "done"]
    /\ UNCHANGED <<data_vars, today, last, ensure_calls, query, audit_fails>>

NextConc ==
    \/ \E t \in ConcTxns, op \in ConcOps : Begin(t, op)
    \/ \E t \in ConcTxns : ReadExisting(t)
    \/ \E t \in ConcTxns : DeleteInsertCommit(t)

SpecConc == InitConc /\ [][NextConc]_vars

\* C24: when two concurrent reconciliation requests on one pair (approve, revoke or a
\* per-pair update of autocheck, in any combination and interleaving) have both finished,
\* the pair has at most one LabAccess row.
C24_ConcurrentReconcileOneRow ==
    (\A t \in ConcTxns : txns[t].pc = "done" /\ txns[t].op # "none")
        => Cardinality(PairRows(lab_access, ConcEngineer, ConcLab)) <= 1

(***************************************************************************)
(* SpecTitles: the administrator adds Document rows (further versions of a *)
(* title, further titles) to lab 1 and engineer 1 acknowledges documents.  *)
(***************************************************************************)
TitleNames == {"manual", "safety"}
TitleVersions == {1, 2}
TitleDocumentIds == 1..Cardinality(TitleNames \X TitleVersions)

\* the unique constraint uq_doc_lab_title_version on a candidate table
UniqueDocument(rows) ==
    \A d1, d2 \in rows :
        (d1.lab_id = d2.lab_id /\ d1.title = d2.title /\ d1.version = d2.version)
            => d1 = d2

\* add_document (routes/admin.py): always a new Document row; a duplicate
\* (lab, title, version) is refused by the unique constraint
AddDocument(lab_id, title, version, mandatory) ==
    LET d == [id |-> Cardinality(documents) + 1, lab_id |-> lab_id, title |-> title,
              version |-> version, mandatory |-> mandatory]
    IN  /\ IF UniqueDocument(documents \cup {d})
           THEN /\ documents' = documents \cup {d}
                /\ last' = Last("add_document", 0, lab_id, "ok", FALSE, 0, 0)
           ELSE /\ documents' = documents
                /\ last' = Last("add_document", 0, lab_id, "duplicate", FALSE, 0, 0)
        /\ ensure_calls' = {}
        /\ UNCHANGED <<engineers, labs, courses, requirements, completions, acks,
                       lab_metrics, lab_access, clock, today, query, env_vars>>

NextTitles ==
    \/ \E l \in LabIds, title \in TitleNames, v \in TitleVersions, m \in BOOLEAN :
           AddDocument(l, title, v, m)
    \/ \E d \in TitleDocumentIds : AcknowledgeDocument(1, d)

SpecTitles == InitDocs /\ [][NextTitles]_vars

\* the mandatory Document rows of the lab that carry the highest version of their title
HighestMandatory(lab_id) ==
    LET docs == {d \in documents : d.lab_id = lab_id /\ d.mandatory}
    IN  {d \in docs : \A o \in docs : o.title = d.title => o.version <= d.version}

\* C26: an engineer who has acknowledged, for every mandatory title of the lab, the
\* Document row with the highest version of that title (at that version) passes the
\* document check, whatever older versions of the titles the lab still holds.
C26_HighestVersionSuffices ==
    \A e \in EngineerIds, l \in LabIds :
        (\A d \in HighestMandatory(l) :
             \E a \in acks : a.engineer_id = e /\ a.document_id = d.id
                             /\ a.version = d.version)
            => HasRequiredAcks(e, l)

(***************************************************************************)
(* SpecReport: the compliance_status report over the tables of SpecEval,   *)
(* with a pending or active row of the pair (1, 1), as the days pass.      *)
(***************************************************************************)
\* the training issue the report lists for one requirement of the lab: "none", or
\* "not_completed", or "expired"
ReportTrainingIssue(engineer_id, req, lab, asof) ==
    LET course == CourseGet(req.course_id)
    IN  IF course = {} THEN "none"
        ELSE LET c == CHOOSE x \in course : TRUE
                 comp == LatestCompletion(engineer_id, c.id)
                 \* req.valid_months if req.valid_months else course.valid_months
                 valid_months == IF req.valid_months # NULL /\ req.valid_months[1] # 0
                                 THEN req.valid_months ELSE c.valid_months
             IN  IF comp = {} THEN "not_completed"
                 ELSE IF valid_months # NULL /\ valid_months[1] # 0 /\ valid_months[1] > 0
                 THEN LET expire_days == valid_months[1] * 30
                          expires == ToOrdinal((CHOOSE x \in comp : TRUE).date_taken)
                                         + expire_days
                          grace_expires == expires + lab.grace_days
                      IN  IF ToOrdinal(asof) > grace_expires THEN "expired" ELSE "none"
                 ELSE "none"

\* the document issues the report lists: the mandatory documents of the lab without an
\* acknowledgment of their version
ReportDocIssues(engineer_id, lab_id) ==
    {d.id : d \in {x \in documents :
                      /\ x.lab_id = lab_id /\ x.mandatory
                      /\ {a \in acks : a.engineer_id = engineer_id /\ a.document_id = x.id
                                        /\ a.version = x.version} = {}}}

\* the rows of the report: one per pending or active LabAccess row whose engineer and lab
\* exist, with the course ids of the training issues and the ids of the document issues
ReportRows(asof) ==
    {[engineer_id |-> acc.engineer_id, lab_id |-> acc.lab_id, access_status |-> acc.status,
      training_issues |->
          {r.course_id : r \in {x \in requirements :
              /\ x.lab_id = acc.lab_id
              /\ ReportTrainingIssue(acc.engineer_id, x,
                                     CHOOSE l \in LabGet(acc.lab_id) : TRUE, asof) # "none"}},
      document_issues |-> ReportDocIssues(acc.engineer_id, acc.lab_id)] :
        acc \in {x \in lab_access : /\ x.status \in {"pending", "active"}
                                     /\ x.engineer_id \in engineers
                                     /\ LabGet(x.lab_id) # {}}}

\* report_compliance_status_csv (routes/admin.py), as of today
QueryReport ==
    /\ query' = Query("report_compliance_status_csv", 0, 0, 0, NULL, 0, today,
                      ReportRows(today))
    /\ UNCHANGED <<data_vars, lab_access, clock, today, last, ensure_calls, env_vars>>

ReportRequirements ==
    EvalRequirements \cup {{[lab_id |-> 1, course_id |-> 1, valid_months |-> Some(0)]}}

InitReport ==
    /\ engineers = {1}
    /\ labs \in EvalLabs \ {{}}
    /\ courses \in EvalCourses
    /\ requirements \in ReportRequirements
    /\ completions \in EvalCompletions
    /\ documents \in EvalDocuments
    /\ acks \in EvalAcks
    /\ lab_metrics = {}
    /\ lab_access \in {{SeedRow(1, 1, s)} : s \in {"pending", "active"}}
    /\ clock = 0
    /\ today = EvalStartDay
    /\ last = Last("init", 0, 0, "ok", FALSE, 0, 0)
    /\ ensure_calls = {}
    /\ query = NoQuery
    /\ audit_fails = FALSE
    /\ txns = <<>>

NextReport ==
    \/ EvalAdvanceDay
    \/ QueryReport

SpecReport == InitReport /\ [][NextReport]_vars

\* C27: for every pending or active pair the report lists, the report shows no training
\* issue and no document issue iff is_compliant_for_lab(e, l, today) is true, and it lists
\* a training issue for a required course exactly when is_training_current is false for
\* that course with the requirement's override, the lab's grace days and the same date.
C27_ReportAgreesWithEvaluator ==
    query.fn = "report_compliance_status_csv" =>
        \A row \in query.result :
            /\ (row.training_issues = {} /\ row.document_issues = {})
                   <=> IsCompliantForLab(row.engineer_id, row.lab_id, query.asof)
            /\ \A r \in {x \in requirements : x.lab_id = row.lab_id} :
                   \A c \in CourseGet(r.course_id) :
                       (r.course_id \in row.training_issues)
                           <=> ~IsTrainingCurrent(row.engineer_id, c, r.valid_months,
                                                  (CHOOSE l \in LabGet(row.lab_id) : TRUE)
                                                      .grace_days, query.asof)

(***************************************************************************)
(* SpecFrame: the access requests and the evaluator calls side by side,    *)
(* over the tables of SpecAudit (engineer 1 compliant until the day        *)
(* passes, engineer 2 not compliant).                                      *)
(***************************************************************************)
NextFrame ==
    \/ \E e \in EngineerIds, l \in LabIds : RequestAccess(e, l)
    \/ \E e \in EngineerIds, l \in LabIds : CancelRequest(e, l)
    \/ \E e \in EngineerIds, l \in LabIds : Approve(e, l)
    \/ \E e \in EngineerIds, l \in LabIds : Revoke(e, l)
    \/ Autocheck
    \/ AdvanceDay
    \/ \E e \in EngineerIds, c \in courses : QueryTraining(e, c, NULL, 0)
    \/ \E e \in EngineerIds, l \in LabIds : QueryCompliance(e, l)

SpecFrame == InitAudit /\ [][NextFrame]_vars

\* the rows of the table that belong to other pairs than (engineer_id, lab_id)
OtherRows(rows, engineer_id, lab_id) == rows \ PairRows(rows, engineer_id, lab_id)

\* C30: approve, revoke, request_access and cancel_request of (e, l) change only LabAccess
\* rows of the pair (e, l); an autocheck sweep changes only rows of pairs that have a
\* pending row while compliant or an active row while not compliant; none of them changes
\* an engineer, lab, course, requirement, completion, document or acknowledgment; and a
\* call of is_training_current or is_compliant_for_lab changes no table at all.
C30_OnlyThePairChanges ==
    [][/\ last'.op \in {"approve", "revoke", "request_access", "cancel_request"} =>
              /\ UNCHANGED data_vars
              /\ OtherRows(lab_access', last'.engineer_id, last'.lab_id)
                     = OtherRows(lab_access, last'.engineer_id, last'.lab_id)
       /\ last'.op = "autocheck" =>
              /\ UNCHANGED data_vars
              /\ \A p \in Pairs :
                     PairRows(lab_access', p[1], p[2]) # PairRows(lab_access, p[1], p[2])
                         => \/ HasRow(p[1], p[2], "pending")
                                  /\ IsCompliantForLab(p[1], p[2], today)
                            \/ HasRow(p[1], p[2], "active")
                                  /\ ~IsCompliantForLab(p[1], p[2], today)
       /\ query' # query => UNCHANGED <<data_vars, lab_access, clock, today>>]_vars

\* revoke(1, 1) has just replaced the rows of its pair while the pair (2, 1) has a row
C30_Witness ==
    /\ last.op = "revoke" /\ last.engineer_id = 1 /\ last.lab_id = 1
    /\ \E c \in ensure_calls : c.returned = clock
    /\ \E r \in lab_access : r.engineer_id = 1 /\ r.id = clock /\ r.status = "revoked"
    /\ PairRows(lab_access, 2, 1) # {}

(***************************************************************************)
(* SpecLive: the compliance data and the day are fixed, nobody revokes or  *)
(* cancels, and autocheck keeps being run (weak fairness: the sweep is a   *)
(* request that is always accepted, so it is continuously enabled).        *)
(* Engineer 1 is compliant, engineer 2 is compliant or not, and the pairs  *)
(* start with sets of rows that the requests of Spec can leave.            *)
(***************************************************************************)
InitLive ==
    /\ engineers = EngineerIds
    /\ labs = {[id |-> 1, grace_days |-> 0]}
    /\ courses = {[id |-> 1, valid_months |-> Some(1)]}
    /\ requirements = {[lab_id |-> 1, course_id |-> 1, valid_months |-> NULL]}
    /\ completions \in {{[engineer_id |-> e, course_id |-> 1, date_taken |-> d] :
                              e \in es, d \in TakenDates} : es \in {{1}, {1, 2}}}
    /\ documents = {[id |-> 1, lab_id |-> 1, title |-> "manual", version |-> 1,
                     mandatory |-> TRUE]}
    /\ acks = {[id |-> e, engineer_id |-> e, document_id |-> 1, version |-> 1] :
                  e \in EngineerIds}
    /\ lab_metrics = {}
    /\ lab_access \in {{SeedRow(1, 1, s) : s \in cfg1} \cup {SeedRow(2, 1, s) : s \in cfg2} :
                          cfg1 \in SUBSET Statuses,
                          cfg2 \in {{}, {"pending"}, {"pending", "revoked"}}}
    /\ clock = 0
    /\ today = StartDay
    /\ last = Last("init", 0, 0, "ok", FALSE, 0, 0)
    /\ ensure_calls = {}
    /\ query = NoQuery
    /\ audit_fails = FALSE
    /\ txns = <<>>

\* the row ids a sweep may need: one per pair
SweepReserve == Cardinality(Pairs)

\* request_access and approve are explored while the clock leaves room for a whole sweep
NextLive ==
    \/ Autocheck
    \/ \E e \in EngineerIds, l \in LabIds :
           clock + SweepReserve < MaxClock /\ RequestAccess(e, l)
    \/ \E e \in EngineerIds, l \in LabIds :
           clock + SweepReserve < MaxClock /\ Approve(e, l)

SpecLive == InitLive /\ [][NextLive]_vars /\ WF_vars(Autocheck)

====
